---- MODULE Spec2Model ----
(***************************************************************************)
(* Category-partitioned dataset splitter                                   *)
(* (scripts/python/large_dataset_splitter.py).                             *)
(*                                                                         *)
(* main() lists the input files, and for every file scans it lazily,       *)
(* collects the distinct values of the category column, and then, for      *)
(* every category, creates the category directory, filters the (lazily     *)
(* re-read) file on the category and writes the result.  The whole loop    *)
(* sits in one try block whose handler logs the error.                     *)
(***************************************************************************)
EXTENDS Integers, Sequences, FiniteSets, TLC

(* ------------------------------ bounds -------------------------------- *)
\* at most this many input files are matched by the glob
MaxFiles == 2
\* at most this many data rows per input file
MaxRows == 2
\* at most this many rewrites of an input file while the run is under way
MaxChanges == 1

(* ----------------------------- constants ------------------------------ *)
\* the value polars gives to an empty csv field
Null == "<null>"
\* --category-col
category_col == "region"
\* texts of the category field in the input lines ("" is an empty field)
CategoryTexts == {"EU", "US", ""}
\* the headers an input file may have; the second one lacks the category column
Headers == {<<"id", "region", "value">>, <<"id", "kind", "value">>}
\* the input files the glob may match, as <<directory, stem>>, in rglob order
PathPool == <<<<"a", "data">>, <<"b", "data">>, <<"a", "more">>>>

(* ------------------------------ helpers ------------------------------- *)
\* file_path.stem
Stem(path) == path[2]

\* the i-th data line of an input file whose category field reads c
Line(i, c) == <<ToString(i), c, ToString(10 * i)>>

\* the files with exactly the lines 1..k, for a choice of category texts
LinesOfLen(k) == {[i \in 1..k |-> Line(i, cs[i])] : cs \in [1..k -> CategoryTexts]}

\* an input file that cannot be read (vanished, permission denied)
Unreadable == [readable |-> FALSE, header |-> <<>>, lines |-> <<>>]

\* what an input file may hold
FileContents ==
  {Unreadable} \cup
  {[readable |-> TRUE, header |-> h, lines |-> ls] :
      h \in Headers, ls \in UNION {LinesOfLen(k) : k \in 0..MaxRows}}

\* the sets of positions of PathPool the glob may match
Trees == {S \in SUBSET (1..Len(PathPool)) : Cardinality(S) <= MaxFiles}

RECURSIVE SeqOfSet(_)
\* a set of numbers as an increasing list
SeqOfSet(S) ==
  IF S = {} THEN <<>>
  ELSE LET m == CHOOSE x \in S : \A y \in S : x <= y
       IN <<m>> \o SeqOfSet(S \ {m})

\* position of a column name in a header, 0 when the name does not resolve
ColIndex(header, name) ==
  IF \E i \in 1..Len(header) : header[i] = name
  THEN CHOOSE i \in 1..Len(header) : header[i] = name
  ELSE 0

\* pl.scan_csv(..., infer_schema_length=0): every column is a string, an
\* empty field is null
ParseField(text) == IF text = "" THEN Null ELSE text
ParseRow(line) == [j \in 1..Len(line) |-> ParseField(line[j])]
\* a line with fewer fields than the header is filled up with nulls
PadRow(row, n) == [j \in 1..n |-> IF j <= Len(row) THEN row[j] ELSE Null]
ScanCsv(file) ==
  [header |-> file.header,
   rows |-> [i \in 1..Len(file.lines) |->
               PadRow(ParseRow(file.lines[i]), Len(file.header))]]
\* a line with more fields than the header makes the read fail
\* (truncate_ragged_lines is left at False)
HasLongLine(file) ==
  \E i \in 1..Len(file.lines) : Len(file.lines[i]) > Len(file.header)

\* the elements of a list
Range(s) == {s[i] : i \in 1..Len(s)}

\* the lists that hold every element of S exactly once
Permutations_(S) ==
  {p \in [1..Cardinality(S) -> S] : \A x \in S : \E i \in DOMAIN p : p[i] = x}

\* a discovery that stops after the first row
UniqueOfFirstRow(df) ==
  LET k == ColIndex(df.header, category_col)
  IN Permutations_({df.rows[i][k] : i \in 1..Len(df.rows) \cap {1}})

\* a discovery that reports a null category for a frame without rows
UniqueNullWhenEmpty(df) ==
  LET k == ColIndex(df.header, category_col)
  IN IF df.rows = <<>> THEN {<<Null>>}
     ELSE Permutations_({df.rows[i][k] : i \in 1..Len(df.rows)})

\* _extract_unique_categories: the distinct values of the category column
\* (null included); unique() promises no order, so any order may come back
UniqueCategories(df) ==
  LET k == ColIndex(df.header, category_col)
  IN Permutations_({df.rows[i][k] : i \in 1..Len(df.rows)})

\* a filter with the comparison turned round
SelectRowsOther(rows, k, cat) ==
  SelectSeq(rows, LAMBDA r : r[k] # Null /\ r[k] # cat)

RECURSIVE SelectRows(_, _, _)
\* lazy_df.filter(pl.col(category_col).eq(cat)): the rows whose category
\* equals cat, in file order; a null category compares to null and is dropped
SelectRows(rows, k, cat) ==
  IF rows = <<>> THEN <<>>
  ELSE LET r == Head(rows)
           rest == SelectRows(Tail(rows), k, cat)
       IN IF r[k] # Null /\ r[k] = cat THEN <<r>> \o rest ELSE rest

\* an exclude that drops the last column, whatever its name
ExcludeLast(row, k) == [j \in 1..(Len(row) - 1) |-> row[j]]

\* select(pl.all().exclude(category_col)) on one row or on the header
Exclude(row, k) ==
  [j \in 1..(Len(row) - 1) |-> IF j < k THEN row[j] ELSE row[j + 1]]

\* df.write_csv: null is written as an empty field
EncodeField(v) == IF v = Null THEN "" ELSE v
EncodeRow(row) == [j \in 1..Len(row) |-> EncodeField(row[j])]

\* a save that forgets the filter and writes every row for every category
FilteredCsvUnfiltered(df, cat, keep) ==
  LET k == ColIndex(df.header, category_col)
  IN IF keep
     THEN [header |-> df.header,
           lines |-> [i \in 1..Len(df.rows) |-> EncodeRow(df.rows[i])]]
     ELSE [header |-> Exclude(df.header, k),
           lines |-> [i \in 1..Len(df.rows) |-> EncodeRow(Exclude(df.rows[i], k))]]

\* the frame split_and_save_by_category collects for one category, as the
\* text write_csv puts into the output file
FilteredCsv(df, cat, keep) ==
  LET k == ColIndex(df.header, category_col)
      sel == SelectRows(df.rows, k, cat)
  IN IF keep
     THEN [header |-> df.header,
           lines |-> [i \in 1..Len(sel) |-> EncodeRow(sel[i])]]
     ELSE [header |-> Exclude(df.header, k),
           lines |-> [i \in 1..Len(sel) |-> EncodeRow(Exclude(sel[i], k))]]

\* what a write_csv that fails may leave at its path: a file that was
\* created and holds nothing yet, or the header and only some of the lines
PartialCsv(csv) ==
  {[header |-> <<>>, lines |-> <<>>]} \cup
  {[header |-> csv.header, lines |-> SubSeq(csv.lines, 1, n)] :
     n \in 0..(Len(csv.lines) - 1)}

\* fout_dir.joinpath(f"{file_name}.{output_extension}") below output_dir
OutPath(cat, file_name) == <<cat, file_name>>

(* ------------------------------- state -------------------------------- *)
VARIABLES
  disk,               \* the input files: position in PathPool -> content
  keep_category_col,  \* --keep-category-col
  pc,                 \* where main() stands
  files,              \* the list main() iterates over
  idx,                \* position of the current file in files
  categories,         \* the list _extract_unique_categories returned
  ci,                 \* position of the current category in categories
  dirs,               \* the category directories below output_dir
  outFiles,           \* the files below output_dir: path -> content
  log,                \* what the logger has been given
  changes             \* how often an input file was rewritten during the run

\* the state of the splitter
splitVars == <<disk, keep_category_col, pc, files, idx, categories, ci, dirs,
               outFiles, log, changes>>

\* the state of extract_files (scripts/python/extract_files.py)
VARIABLES
  remove_unpacked_dir, \* --remove_unpacked_dir
  tree0,               \* the zip files below the directory when the call began
  zips,                \* the zip files below the directory now
  zdirs,               \* the directories below the directory now
  unpacked,            \* the unpack directories that got an archive's content
  walk,                \* rglob: the directories still to visit, innermost first
  cur_dir,             \* rglob: the directory whose zip files are being yielded
  pending,             \* rglob: the zip files of cur_dir not yet yielded
  zpc,                 \* where extract_files stands
  zlog                 \* what its logger has been given

zipVars == <<remove_unpacked_dir, tree0, zips, zdirs, unpacked, walk, cur_dir,
             pending, zpc, zlog>>

\* extract_files is not running
ZipIdle ==
  /\ remove_unpacked_dir = FALSE
  /\ tree0 = {}
  /\ zips = {}
  /\ zdirs = {}
  /\ unpacked = {}
  /\ walk = <<>>
  /\ cur_dir = <<>>
  /\ pending = {}
  /\ zpc = "off"
  /\ zlog = <<>>

\* the state of calculate_file_len's main (scripts/python/calculate_file_len.py)
VARIABLES
  has_header,          \* --has-header
  include_main_dir,    \* --include-main-dir
  key_pool,            \* the (file, dir, parent) keys the matched files may have
  text_pool,           \* the contents the matched files may have
  to_list,             \* how many more files rglob may yield at most
  last_text,           \* the content of the file of the current iteration
  file_len,            \* file_len = calculate_file_len(file, has_header)
  data,                \* the defaultdict: key -> file_count, file_len
  matched,             \* per key, the files matched so far and their lines
  report,              \* df, the frame that is logged and written
  lpc,                 \* where main stands
  llog                 \* what its logger has been given

lenVars == <<has_header, include_main_dir, key_pool, text_pool, to_list,
             last_text, file_len, data, matched, report, lpc, llog>>

\* no frame has been built
NoReport == [made |-> FALSE, rows |-> {}]

\* calculate_file_len is not running
LenIdle ==
  /\ has_header = FALSE
  /\ include_main_dir = FALSE
  /\ key_pool = {}
  /\ text_pool = {}
  /\ to_list = 0
  /\ last_text = <<>>
  /\ file_len = 0
  /\ data = <<>>
  /\ matched = <<>>
  /\ report = NoReport
  /\ lpc = "off"
  /\ llog = <<>>

\* the state of the scripts other than the splitter
\* hash_files: the options, the directories on disk, the calls of
\* create_hash_file still to make and those made, the rest of the glob of
\* the current call, the position of main and its log
VARIABLES sub_folders, file_pattern, hdisk, hqueue, hcalled, hlisting, hpc, hlog
hashVars == <<sub_folders, file_pattern, hdisk, hqueue, hcalled, hlisting, hpc, hlog>>

\* hash_files has not been started
HashIdle ==
  /\ sub_folders = FALSE
  /\ file_pattern = ""
  /\ hdisk = <<>>
  /\ hqueue = <<>>
  /\ hcalled = {}
  /\ hlisting = <<>>
  /\ hpc = "idle"
  /\ hlog = <<>>

otherTools == <<zipVars, lenVars, hashVars>>
OtherToolsIdle == ZipIdle /\ LenIdle /\ HashIdle

vars == <<splitVars, otherTools>>

\* one logger call
Event(ev, file, n, msg) == [ev |-> ev, file |-> file, n |-> n, msg |-> msg]

\* the input file of the current iteration
CurFile == disk[files[idx]]
file_name == Stem(PathPool[files[idx]])

Init ==
  /\ \E S \in Trees : disk \in [S -> FileContents]
  /\ keep_category_col \in BOOLEAN
  /\ pc = "list"
  /\ files = <<>>
  /\ idx = 0
  /\ categories = <<>>
  /\ ci = 0
  /\ dirs = {}
  /\ outFiles = <<>>
  /\ log = <<>>
  /\ changes = 0
  /\ OtherToolsIdle

\* except Exception as e: logger.error(...) ; main() returns
Raise(kind) ==
  /\ log' = Append(log, Event("error", idx, 0, kind))
  /\ pc' = "done"

\* the for statement over files takes the next file or ends the loop
NextFile ==
  IF idx < Len(files)
  THEN /\ idx' = idx + 1
       /\ pc' = "read"
  ELSE /\ idx' = idx
       /\ pc' = "done"

\* files = list(input_path.rglob(...)) if input_path.is_dir() else [input_path]
ListFiles ==
  /\ pc = "list"
  /\ files' = SeqOfSet(DOMAIN disk)
  /\ IF files' = <<>>
     THEN pc' = "done" /\ idx' = idx
     ELSE pc' = "read" /\ idx' = 1
  /\ UNCHANGED <<disk, keep_category_col, categories, ci, dirs, outFiles, log,
                 changes, otherTools>>

\* logger.info("Reading file ..."); file_name = stem; lazy_df = pl.scan_csv(...)
ReadFile ==
  /\ pc = "read"
  /\ log' = Append(log, Event("reading", idx, 0, ""))
  /\ pc' = "discover"
  /\ UNCHANGED <<disk, keep_category_col, files, idx, categories, ci, dirs,
                 outFiles, changes, otherTools>>

\* categories = _extract_unique_categories(lazy_df, category_col=category_col)
\* and the "Splitting" log line
Discover ==
  /\ pc = "discover"
  /\ IF ~CurFile.readable
     THEN Raise("InputIOError") /\ UNCHANGED <<categories, ci>>
     ELSE IF ColIndex(CurFile.header, category_col) = 0
     THEN Raise("ColumnNotFound") /\ UNCHANGED <<categories, ci>>
     ELSE IF HasLongLine(CurFile)
     THEN Raise("ComputeError") /\ UNCHANGED <<categories, ci>>
     ELSE /\ categories' \in UniqueCategories(ScanCsv(CurFile))
          /\ log' = Append(log, Event("splitting", idx, Len(categories'), ""))
          /\ ci' = IF categories' = <<>> THEN 0 ELSE 1
          /\ pc' = IF categories' = <<>> THEN "saved" ELSE "mkdir"
  /\ UNCHANGED <<disk, keep_category_col, files, idx, dirs, outFiles, changes, otherTools>>

\* fout_dir = output_dir.joinpath(cat); fout_dir.mkdir(parents=True, exist_ok=True)
\* joinpath(None) is a TypeError
Mkdir ==
  /\ pc = "mkdir"
  /\ IF categories[ci] = Null
     THEN Raise("TypeError") /\ UNCHANGED dirs
     ELSE /\ dirs' = dirs \cup {categories[ci]}
          /\ pc' = "write"
          /\ UNCHANGED log
  /\ UNCHANGED <<disk, keep_category_col, files, idx, categories, ci, outFiles,
                 changes, otherTools>>

\* a loop that leaves out the category after the one just written
NextCategorySkip ==
  IF ci + 1 < Len(categories)
  THEN ci' = ci + 2 /\ pc' = "mkdir"
  ELSE ci' = ci /\ pc' = "saved"

\* the for statement over categories takes the next category or returns
NextCategory ==
  IF ci < Len(categories)
  THEN ci' = ci + 1 /\ pc' = "mkdir"
  ELSE ci' = ci /\ pc' = "saved"

\* lazy_filtered.collect() re-reads the input file; df.write_csv(path)
\* replaces the file at path, or fails (disk full, permission denied) before
\* the file is opened or part way through it
WriteCsv ==
  /\ pc = "write"
  /\ IF ~CurFile.readable
     THEN Raise("InputIOError") /\ UNCHANGED <<ci, outFiles>>
     ELSE IF ColIndex(CurFile.header, category_col) = 0
     THEN Raise("ColumnNotFound") /\ UNCHANGED <<ci, outFiles>>
     ELSE IF HasLongLine(CurFile)
     THEN Raise("ComputeError") /\ UNCHANGED <<ci, outFiles>>
     ELSE LET p == OutPath(categories[ci], file_name)
              csv == FilteredCsv(ScanCsv(CurFile), categories[ci], keep_category_col)
          IN \/ /\ outFiles' = (p :> csv) @@ outFiles
                /\ NextCategory
                /\ UNCHANGED log
             \/ /\ Raise("SinkIOError")
                /\ \/ outFiles' = outFiles
                   \/ \E part \in PartialCsv(csv) :
                        outFiles' = (p :> part) @@ outFiles
                /\ UNCHANGED ci
  /\ UNCHANGED <<disk, keep_category_col, files, idx, categories, dirs, changes, otherTools>>

\* logger.info(f"{len(categories)} files saved in {output_dir}")
LogSaved ==
  /\ pc = "saved"
  /\ log' = Append(log, Event("saved", idx, Len(categories), ""))
  /\ NextFile
  /\ UNCHANGED <<disk, keep_category_col, files, categories, ci, dirs, outFiles,
                 changes, otherTools>>

Next ==
  \/ ListFiles
  \/ ReadFile
  \/ Discover
  \/ Mkdir
  \/ WriteCsv
  \/ LogSaved

Spec == Init /\ [][Next]_vars

\* main() returns None from the end of the loop and from the handler alike,
\* and click turns a normal return into exit status 0
ExitCode == 0

(* ------------------------- ragged input lines -------------------------- *)
\* lines of an input file whose field count differs from the header's
ShortLines(i) == {<<ToString(i)>>, <<ToString(i), "EU">>}
LongLines(i) == {<<ToString(i), "EU", ToString(10 * i), "x">>}
RaggedLinesOfLen(k) ==
  {ls \in [1..k -> UNION {{Line(i, c) : c \in CategoryTexts} \cup ShortLines(i)
                            \cup LongLines(i) : i \in 1..k}] :
     \A i \in 1..k : ls[i][1] = ToString(i)}

\* the run starts on a single file with the category column whose lines may
\* be ragged
InitRagged ==
  /\ \E ls \in UNION {RaggedLinesOfLen(k) : k \in 0..MaxRows} :
       disk = (1 :> [readable |-> TRUE, header |-> <<"id", "region", "value">>,
                     lines |-> ls])
  /\ keep_category_col \in BOOLEAN
  /\ pc = "list"
  /\ files = <<>>
  /\ idx = 0
  /\ categories = <<>>
  /\ ci = 0
  /\ dirs = {}
  /\ outFiles = <<>>
  /\ log = <<>>
  /\ changes = 0
  /\ OtherToolsIdle

SpecRagged == InitRagged /\ [][Next]_vars

(* ------------------- an input file rewritten under way ----------------- *)
\* Another process replaces the current input file after the categories
\* were collected and before the last category is written: lazy_df holds
\* the path, not the data, and every collect() reads the file again.
Mutate ==
  /\ pc \in {"mkdir", "write"}
  /\ changes < MaxChanges
  /\ changes' = changes + 1
  /\ \E c \in FileContents \ {CurFile} : disk' = [disk EXCEPT ![files[idx]] = c]
  /\ UNCHANGED <<keep_category_col, pc, files, idx, categories, ci, dirs,
                 outFiles, log, otherTools>>

\* the run starts on a single input file (input_path is a file)
InitMut == Init /\ Cardinality(DOMAIN disk) = 1

NextMut == Next \/ Mutate

SpecMut == InitMut /\ [][NextMut]_vars

(* ======================================================================= *)
(* extract_files (scripts/python/extract_files.py): unzip every archive    *)
(* below a directory; a corrupt archive is moved into bad_zip_<stem>.      *)
(* ======================================================================= *)
\* deepest directory the file system accepts below the directory (the
\* longest path the operating system takes); a deeper mkdir is an OSError
MaxDepth == 3

\* the splitter is not running
SplitIdle ==
  /\ disk = <<>>
  /\ keep_category_col = FALSE
  /\ pc = "off"
  /\ files = <<>>
  /\ idx = 0
  /\ categories = <<>>
  /\ ci = 0
  /\ dirs = {}
  /\ outFiles = <<>>
  /\ log = <<>>
  /\ changes = 0

\* directory names: a plain directory, f"{stem}_{timestamp}", f"bad_zip_{stem}"
PlainName(n) == <<"dir", n>>
UnpackName(stem) == <<"unpack", stem>>
BadZipName(stem) == <<"bad_zip", stem>>

\* dir_path itself and the directories it holds when the call begins
Root == <<>>
InitialDirs == {Root, <<PlainName("sub")>>}
\* the places a zip file may have when the call begins
ZipSpots == {[dir |-> Root, stem |-> "x"], [dir |-> Root, stem |-> "y"],
             [dir |-> <<PlainName("sub")>>, stem |-> "x"]}
\* a zip file: where it lies, its stem, and whether zipfile can read it
ZipFiles == {[dir |-> sp.dir, stem |-> sp.stem, good |-> g] :
               sp \in ZipSpots, g \in BOOLEAN}
ZipTrees ==
  {T \in SUBSET ZipFiles :
     \A f, g \in T : (f.dir = g.dir /\ f.stem = g.stem) => f = g}

\* file_path.parent.joinpath(f"{file_path.stem}_{timestamp}")
UnpackDir(f) == Append(f.dir, UnpackName(f.stem))
\* file_path.parent.joinpath(f"bad_zip_{file_path.stem}")
BadZipDir(f) == Append(f.dir, BadZipName(f.stem))

\* the directories directly inside d
SubDirs(d, ds) ==
  {x \in ds : Len(x) = Len(d) + 1 /\ SubSeq(x, 1, Len(d)) = d}

RECURSIVE DropEmpty(_)
\* rglob leaves a directory level once all its directories were visited
DropEmpty(w) ==
  IF w = <<>> THEN <<>>
  ELSE IF Head(w) = {} THEN DropEmpty(Tail(w)) ELSE w

\* one logger call of extract_files
ZEvent(ev, f) == [ev |-> ev, stem |-> f.stem, dir |-> f.dir]
NoFile == [dir |-> Root, stem |-> "", good |-> FALSE]

InitZip ==
  /\ SplitIdle
  /\ LenIdle
  /\ HashIdle
  /\ remove_unpacked_dir \in BOOLEAN
  /\ tree0 \in ZipTrees
  /\ zips = tree0
  /\ zdirs = InitialDirs
  /\ unpacked = {}
  /\ walk = <<>>
  /\ cur_dir = Root
  /\ pending = {}
  /\ zpc = "start"
  /\ zlog = <<>>

\* except Exception as e: logger.error(...); return None
ZRaise(f) ==
  /\ zlog' = Append(zlog, ZEvent("error", f))
  /\ zpc' = "done"

\* dir_path.exists(), the "Extracting files" line, and the start of
\* dir_path.rglob("*.zip")
ZStart ==
  /\ zpc = "start"
  /\ IF Root \notin zdirs
     THEN /\ zlog' = Append(zlog, ZEvent("missing", NoFile))
          /\ zpc' = "raised"
          /\ walk' = walk
     ELSE /\ zlog' = Append(zlog, ZEvent("extracting", NoFile))
          /\ zpc' = "walk"
          /\ walk' = <<{Root}>>
  /\ UNCHANGED <<remove_unpacked_dir, tree0, zips, zdirs, unpacked, cur_dir,
                 pending, splitVars, lenVars, hashVars>>

\* rglob comes to a directory: it lists the directory's entries that match
\* *.zip as they are at this moment and yields them one after the other
ZVisit ==
  /\ zpc = "walk"
  /\ walk # <<>>
  /\ \E d \in Head(walk) :
       /\ cur_dir' = d
       /\ pending' = {f \in zips : f.dir = d}
       /\ walk' = <<Head(walk) \ {d}>> \o Tail(walk)
  /\ zpc' = "files"
  /\ UNCHANGED <<remove_unpacked_dir, tree0, zips, zdirs, unpacked, zlog,
                 splitVars, lenVars, hashVars>>

\* the body of the for statement for one yielded zip file
ZExtract ==
  /\ zpc = "files"
  /\ \E f \in pending :
       /\ pending' = pending \ {f}
       /\ IF Len(UnpackDir(f)) > MaxDepth
          THEN \* unpack_dir.mkdir: OSError, caught by the outer handler
               /\ ZRaise(f)
               /\ UNCHANGED <<zips, zdirs, unpacked>>
          ELSE IF f \notin zips
          THEN \* zipfile.ZipFile: FileNotFoundError, logged; continue
               /\ zdirs' = zdirs \cup {UnpackDir(f)}
               /\ zlog' = Append(zlog, ZEvent("not_found", f))
               /\ UNCHANGED <<zips, unpacked, zpc>>
          ELSE IF f.good
          THEN \* extractall, and unlink when remove_unpacked_dir
               /\ zdirs' = zdirs \cup {UnpackDir(f)}
               /\ unpacked' = unpacked \cup {UnpackDir(f)}
               /\ IF remove_unpacked_dir
                  THEN /\ zips' = zips \ {f}
                       /\ zlog' = zlog \o <<ZEvent("extracted", f), ZEvent("removed", f)>>
                  ELSE /\ zips' = zips
                       /\ zlog' = Append(zlog, ZEvent("extracted", f))
               /\ UNCHANGED zpc
          ELSE \* zipfile.BadZipFile: mkdir bad_zip_<stem>, rename into it
               /\ zdirs' = zdirs \cup {UnpackDir(f), BadZipDir(f)}
               /\ zips' = (zips \ {f}) \cup {[f EXCEPT !.dir = BadZipDir(f)]}
               /\ zlog' = zlog \o <<ZEvent("bad_zip", f), ZEvent("moved", f)>>
               /\ UNCHANGED <<unpacked, zpc>>
  /\ UNCHANGED <<remove_unpacked_dir, tree0, walk, cur_dir, splitVars, lenVars, hashVars>>

\* the zip files of the directory are used up: rglob lists the directory's
\* sub-directories as they are at this moment and goes down into them
ZSubdirs ==
  /\ zpc = "files"
  /\ pending = {}
  /\ walk' = DropEmpty(<<SubDirs(cur_dir, zdirs)>> \o walk)
  /\ zpc' = "walk"
  /\ UNCHANGED <<remove_unpacked_dir, tree0, zips, zdirs, unpacked, cur_dir,
                 pending, zlog, splitVars, lenVars, hashVars>>

\* rglob is used up: the "Extraction complete!" line
ZFinish ==
  /\ zpc = "walk"
  /\ walk = <<>>
  /\ zlog' = Append(zlog, ZEvent("complete", NoFile))
  /\ zpc' = "done"
  /\ UNCHANGED <<remove_unpacked_dir, tree0, zips, zdirs, unpacked, walk,
                 cur_dir, pending, splitVars, lenVars, hashVars>>

NextZip ==
  \/ ZStart
  \/ ZVisit
  \/ ZExtract
  \/ ZSubdirs
  \/ ZFinish

SpecZip == InitZip /\ [][NextZip]_vars

(* ======================================================================= *)
(* calculate_file_len (scripts/python/calculate_file_len.py): count the    *)
(* lines of every matched file and report counts per (file, dir, parent).  *)
(* ======================================================================= *)
\* largest value of the frame's file_count column, a pl.UInt8.  The
\* file_len column is a pl.UInt32, whose largest value no sum of line
\* counts within the bounds below comes near.
UInt8Max == 255
\* has_header: bool = True in the signature of calculate_file_len
DefaultHasHeader == TRUE
\* the encodings calculate_file_len tries, in order
encodings == <<"utf-8", "iso-8859-1", "cp1252">>

\* at most this many bytes in a matched file
MaxBytes == 3
\* at most this many files are matched by the glob
MaxListed == 2

\* a byte of a file: a letter, a newline, or a byte above 0x7f that is no
\* valid utf-8 on its own
Bytes == {"x", "nl", "hi"}
Texts == UNION {[1..n -> Bytes] : n \in 0..MaxBytes}
\* the keys (file_name, file_dir, file_parent) of the matched files
LenKeys == {[file |-> "A", dir |-> "x", parent |-> "p"],
            [file |-> "A", dir |-> "y", parent |-> "p"],
            [file |-> "B", dir |-> "x", parent |-> "p"]}

\* open(file_path, "r", encoding=encode) and reading it: utf-8 fails on a
\* stray high byte, iso-8859-1 and cp1252 take it
Decodes(text, encode) ==
  encode = "utf-8" => \A i \in 1..Len(text) : text[i] # "hi"

RECURSIVE SplitLines(_, _)
\* iterating over the open file: every line ends behind its newline, the
\* last one may have none
SplitLines(text, line) ==
  IF text = <<>> THEN (IF line = <<>> THEN <<>> ELSE <<line>>)
  ELSE IF Head(text) = "nl"
       THEN <<Append(line, "nl")>> \o SplitLines(Tail(text), <<>>)
       ELSE SplitLines(Tail(text), Append(line, Head(text)))

\* buf.count("\n")
CountNewlines(buf) == Cardinality({i \in 1..Len(buf) : buf[i] = "nl"})

RECURSIVE SumCounts(_)
\* sum(buf.count("\n") for buf in buf_gen)
SumCounts(lines) ==
  IF lines = <<>> THEN 0
  ELSE CountNewlines(Head(lines)) + SumCounts(Tail(lines))

RECURSIVE TryEncodings(_, _, _)
\* the loop over encodings: the first encoding that decodes the file gives
\* the result; next(fin) on a file without lines is a StopIteration, which
\* the function does not catch; no encoding left is a ValueError
TryEncodings(text, header, k) ==
  IF k > Len(encodings) THEN [raised |-> "ValueError", value |-> 0]
  ELSE IF ~Decodes(text, encodings[k]) THEN TryEncodings(text, header, k + 1)
  ELSE LET lines == SplitLines(text, <<>>)
       IN IF header
          THEN IF lines = <<>>
               THEN [raised |-> "StopIteration", value |-> 0]
               ELSE [raised |-> "", value |-> SumCounts(Tail(lines))]
          ELSE [raised |-> "", value |-> SumCounts(lines)]

\* calculate_file_len(file_path, has_header)
CalculateFileLen(text, header) == TryEncodings(text, header, 1)

\* data[key] of the defaultdict
Counts(d, key) ==
  IF key \in DOMAIN d THEN d[key] ELSE [file_count |-> 0, file_len |-> 0]

\* the rows of processed_data
ProcessedRows(d) ==
  {[file |-> k.file, dir |-> k.dir, parent |-> k.parent,
    file_count |-> d[k].file_count, file_len |-> d[k].file_len] : k \in DOMAIN d}

\* pl.DataFrame(processed_data, schema=dataframe_schema) takes the rows
FitsSchema(rows) ==
  \A r \in rows : r.file_count <= UInt8Max
\* a frame whose counts were cut to the width of their column
Wrapped(rows) ==
  {[r EXCEPT !.file_count = r.file_count % (UInt8Max + 1)] : r \in rows}

RECURSIVE SumOf(_, _)
\* pl.sum(column) over the rows of a group
SumOf(rows, column) ==
  IF rows = {} THEN 0
  ELSE LET r == CHOOSE x \in rows : TRUE
       IN r[column] + SumOf(rows \ {r}, column)

\* raw_data.group_by(["parent", "file"]).agg(pl.sum("file_count"),
\* pl.sum("file_len")): the UInt8 counts are summed as Int64
GroupBy(rows) ==
  {LET grp == {r \in rows : r.parent = g[1] /\ r.file = g[2]}
   IN [parent |-> g[1], file |-> g[2],
       file_count |-> SumOf(grp, "file_count"),
       file_len |-> SumOf(grp, "file_len")] :
     g \in {<<r.parent, r.file>> : r \in rows}}

\* one logger call of main
LEvent(ev, msg) == [ev |-> ev, msg |-> msg]

\* a directory of a few files of any content and any key
InitLen ==
  /\ SplitIdle
  /\ ZipIdle
  /\ HashIdle
  /\ has_header \in BOOLEAN
  /\ include_main_dir \in BOOLEAN
  /\ key_pool = LenKeys
  /\ text_pool = Texts
  /\ to_list = MaxListed
  /\ last_text = <<>>
  /\ file_len = 0
  /\ data = <<>>
  /\ matched = <<>>
  /\ report = NoReport
  /\ lpc = "start"
  /\ llog = <<>>

\* a directory of up to UInt8Max + 1 one-line files that share one key
InitLenMany ==
  /\ SplitIdle
  /\ ZipIdle
  /\ HashIdle
  /\ has_header = FALSE
  /\ include_main_dir \in BOOLEAN
  /\ \E k \in LenKeys : key_pool = {k}
  /\ text_pool = {<<"x", "nl">>}
  /\ to_list = UInt8Max + 1
  /\ last_text = <<>>
  /\ file_len = 0
  /\ data = <<>>
  /\ matched = <<>>
  /\ report = NoReport
  /\ lpc = "start"
  /\ llog = <<>>

\* except Exception as e: logger.error(...)
LRaise(msg) ==
  /\ llog' = Append(llog, LEvent("error", msg))
  /\ lpc' = "done"

\* the "listing files" line
LStart ==
  /\ lpc = "start"
  /\ llog' = Append(llog, LEvent("listing", ""))
  /\ lpc' = "loop"
  /\ UNCHANGED <<has_header, include_main_dir, key_pool, text_pool, to_list,
                 last_text, file_len, data, matched, report, splitVars, zipVars, hashVars>>

\* one turn of the loop over rglob: the key, calculate_file_len, and the
\* two += on data[key]
LNextFile ==
  /\ lpc = "loop"
  /\ to_list > 0
  /\ to_list' = to_list - 1
  /\ \E key \in key_pool, text \in text_pool :
       LET r == CalculateFileLen(text, has_header) IN
       /\ last_text' = text
       /\ IF r.raised # ""
          THEN /\ LRaise(r.raised)
               /\ UNCHANGED <<file_len, data, matched>>
          ELSE /\ file_len' = r.value
               /\ data' = (key :> [file_count |-> Counts(data, key).file_count + 1,
                                   file_len |-> Counts(data, key).file_len + r.value])
                          @@ data
               /\ matched' = (key :> [file_count |-> Counts(matched, key).file_count + 1,
                                      file_len |-> Counts(matched, key).file_len + r.value])
                             @@ matched
               /\ UNCHANGED <<lpc, llog>>
  /\ UNCHANGED <<has_header, include_main_dir, key_pool, text_pool, report,
                 splitVars, zipVars, hashVars>>

\* rglob is used up: processed_data, raw_data, grouped_df and df.  A count
\* that does not fit its column makes the DataFrame constructor raise, or,
\* in a build that does not check, is cut to the column's width.
LReport ==
  /\ lpc = "loop"
  /\ LET rows == ProcessedRows(data)
         Frame(raw) == [made |-> TRUE,
                        rows |-> IF include_main_dir THEN raw ELSE GroupBy(raw)]
     IN IF FitsSchema(rows)
        THEN /\ report' = Frame(rows)
             /\ lpc' = "done"
             /\ llog' = Append(llog, LEvent("written", ""))
        ELSE \/ /\ LRaise("OverflowError")
                /\ UNCHANGED report
             \/ /\ report' = Frame(Wrapped(rows))
                /\ lpc' = "done"
                /\ llog' = Append(llog, LEvent("written", ""))
  /\ UNCHANGED <<has_header, include_main_dir, key_pool, text_pool, to_list,
                 last_text, file_len, data, matched, splitVars, zipVars, hashVars>>

NextLen ==
  \/ LStart
  \/ LNextFile
  \/ LReport

SpecLen == InitLen /\ [][NextLen]_vars
SpecLenMany == InitLenMany /\ [][NextLen]_vars

(* ======================================================================= *)
(* hash_files (scripts/python/hash_files.py): write, per directory, a file *)
(* that lists the matching files of the directory with their hashes.       *)
(* ======================================================================= *)
\* the source directory and its one sub directory, by directory_path.name
SourceDir == "src"
SubDir == "sub"
\* file names, in parts; the last part of a name with a suffix is the suffix
NameA == <<"a", ".txt">>
NameNotes == <<"notes">>
NameSub == <<SubDir>>
\* the patterns the run may be given
Patterns == {"*.txt", "*", "a*"}
\* contents of the files to hash, as the chunks read_file_chunks yields
Contents == {<<"x">>, <<"y">>}

\* f"01-hashes_{directory_path.name}.txt"
HashFileName(dir) == <<"01-hashes_", dir, ".txt">>

\* does directory_path.glob(file_pattern) yield an entry of this name
Matches(name, pattern) ==
  CASE pattern = "*.txt" -> name[Len(name)] = ".txt"
    [] pattern = "a*" -> name[1] = "a"
    [] OTHER -> TRUE

\* read_file_chunks: the content of the file, chunk by chunk
ReadFileChunks(entry) == entry.content

\* compute_hash: the blake2b digest of the chunks taken together
ComputeHash(chunks) == [blake2b |-> chunks]

\* a regular file and a directory on disk
HFile(content) == [kind |-> "file", content |-> content]
HDir == [kind |-> "dir", content |-> <<>>]

\* the line a run of create_hash_file wrote for a file
HashLine(name, hash) == [name |-> name, hash |-> hash]
\* a hash file left behind by a run over files that have changed since
StaleHashFile == HFile(<<HashLine(NameA, ComputeHash(<<"old">>))>>)

\* the names in a directory
Entries(d, dir) == {q[2] : q \in {q \in DOMAIN d : q[1] = dir}}

\* the trees the run starts on: the source directory with some files,
\* possibly a hash file of an earlier run, possibly a sub directory
HashTrees ==
  {[q \in ({<<SourceDir, n>> : n \in src_names}
            \cup {<<SubDir, n>> : n \in sub_names}) |->
      IF q[2] = NameSub THEN HDir
      ELSE IF q[2] = HashFileName(q[1]) THEN StaleHashFile
      ELSE IF q[2] = NameA THEN HFile(ca) ELSE HFile(<<"x">>)] :
    src_names \in SUBSET {NameA, NameNotes, NameSub, HashFileName(SourceDir)},
    sub_names \in SUBSET {NameA, HashFileName(SubDir)},
    ca \in Contents}

\* sub directories hold something only when the sub directory exists
WellFormedTree(d) ==
  Entries(d, SubDir) # {} => <<SourceDir, NameSub>> \in DOMAIN d

\* one logger call of main
HEvent(ev, msg) == [ev |-> ev, msg |-> msg]

InitHash ==
  /\ SplitIdle
  /\ ZipIdle
  /\ LenIdle
  /\ sub_folders \in BOOLEAN
  /\ file_pattern \in Patterns
  /\ hdisk \in {d \in HashTrees : WellFormedTree(d)}
  /\ hqueue = <<>>
  /\ hcalled = {}
  /\ hlisting = <<>>
  /\ hpc = "start"
  /\ hlog = <<>>

\* except Exception as e: logger.error(...)
HRaise(msg) ==
  /\ hlog' = Append(hlog, HEvent("error", msg))
  /\ hpc' = "done"

\* main up to the calls: all_files, directories, and the order of the calls
HStart ==
  /\ hpc = "start"
  /\ LET directories == IF <<SourceDir, NameSub>> \in DOMAIN hdisk
                        THEN <<SubDir>> ELSE <<>>
     IN hqueue' = (IF sub_folders THEN directories ELSE <<>>) \o <<SourceDir>>
  /\ hpc' = "open"
  /\ UNCHANGED <<sub_folders, file_pattern, hdisk, hcalled, hlisting, hlog,
                 splitVars, zipVars, lenVars>>

\* create_hash_file up to the loop: the hash file is opened for writing,
\* which creates or empties it, and the glob lists the directory in the
\* order of the file system
HOpen ==
  /\ hpc = "open"
  /\ LET dir == Head(hqueue)
         opened == (<<dir, HashFileName(dir)>> :> HFile(<<>>)) @@ hdisk
     IN /\ hdisk' = opened
        /\ hcalled' = hcalled \cup {dir}
        /\ hlisting' \in Permutations_({n \in Entries(opened, dir) :
                                          Matches(n, file_pattern)})
  /\ hpc' = "glob"
  /\ UNCHANGED <<sub_folders, file_pattern, hqueue, hlog, splitVars, zipVars,
                 lenVars>>

\* one turn of the loop over the glob: the hash file is passed over, a
\* directory cannot be opened for reading (IsADirectoryError), a file gets
\* its line
HVisit ==
  /\ hpc = "glob"
  /\ hlisting # <<>>
  /\ hlisting' = Tail(hlisting)
  /\ LET dir == Head(hqueue)
         name == Head(hlisting)
         hash_file == <<dir, HashFileName(dir)>>
         file == hdisk[<<dir, name>>]
     IN IF name = HashFileName(dir)
        THEN UNCHANGED <<hdisk, hpc, hlog>>
        ELSE IF file.kind = "dir"
        THEN /\ HRaise("IsADirectoryError")
             /\ UNCHANGED hdisk
        ELSE /\ hdisk' = [hdisk EXCEPT ![hash_file].content =
                            Append(@, HashLine(name, ComputeHash(ReadFileChunks(file))))]
             /\ UNCHANGED <<hpc, hlog>>
  /\ UNCHANGED <<sub_folders, file_pattern, hqueue, hcalled, splitVars, zipVars,
                 lenVars>>

\* the glob is used up: create_hash_file returns, main goes on to the next
\* directory or logs that the files are hashed
HReturn ==
  /\ hpc = "glob"
  /\ hlisting = <<>>
  /\ hqueue' = Tail(hqueue)
  /\ IF Tail(hqueue) = <<>>
     THEN /\ hlog' = Append(hlog, HEvent("hashed", ""))
          /\ hpc' = "done"
     ELSE /\ hpc' = "open"
          /\ UNCHANGED hlog
  /\ UNCHANGED <<sub_folders, file_pattern, hdisk, hcalled, hlisting, splitVars,
                 zipVars, lenVars>>

NextHash ==
  \/ HStart
  \/ HOpen
  \/ HVisit
  \/ HReturn

SpecHash == InitHash /\ [][NextHash]_vars

(* ======================= properties of the splitter ==================== *)
\* the job of the i-th file was reported as saved / as failed
JobOk(i) == \E k \in 1..Len(log) : log[k].ev = "saved" /\ log[k].file = i
JobFailed(i) == \E k \in 1..Len(log) : log[k].ev = "error" /\ log[k].file = i
JobFailedWith(i, kind) ==
  \E k \in 1..Len(log) : log[k].ev = "error" /\ log[k].file = i /\ log[k].msg = kind
\* the i-th input file, and whether its header holds the category column
InputFile(i) == disk[files[i]]
HasCategoryColumn(f) == \E j \in 1..Len(f.header) : f.header[j] = category_col
\* the text of the category field of a line of the input file f
CategoryText(f, line) == line[CHOOSE j \in 1..Len(f.header) : f.header[j] = category_col]
\* the output file of the current job for category c
JobOutput(c) == outFiles[<<c, PathPool[files[idx]][2]>>]
\* how often a record with this id stands in an output file
Occurrences(out, id) == Cardinality({j \in 1..Len(out.lines) : out.lines[j][1] = id})
RECURSIVE RowsWritten(_)
\* the rows of the current job's output files for the categories in S
RowsWritten(S) ==
  IF S = {} THEN 0
  ELSE LET c == CHOOSE y \in S : TRUE
       IN Len(JobOutput(c).lines) + RowsWritten(S \ {c})
\* split_and_save_by_category has returned for the current file
JobCompleted == pc = "saved"

\* C1: a failure while one file is processed does not abort the Run: once the
\* Run has ended, every file of the list was processed, i.e. reported as
\* saved or as failed.
C1_RunSurvivesFailure ==
  pc = "done" => \A i \in 1..Len(files) : JobOk(i) \/ JobFailed(i)

\* C2: round-trip completeness: when the job of a file completes, the rows
\* of the category files it produced add up to the data rows of the input.
C2_RoundTrip ==
  JobCompleted =>
    /\ \A c \in Range(categories) : <<c, PathPool[files[idx]][2]>> \in DOMAIN outFiles
    /\ RowsWritten(Range(categories)) = Len(CurFile.lines)
C2_Witness ==
  /\ JobCompleted
  /\ Len(CurFile.lines) >= 2
  /\ Cardinality(Range(categories)) >= 2

\* C3: partition disjointness: when the job of a file completes, every input
\* record stands exactly once in the output file of its own category and in
\* no other category file of the job.
C3_Disjoint ==
  JobCompleted =>
    \A i \in 1..Len(CurFile.lines) :
      LET line == CurFile.lines[i] IN
      /\ CategoryText(CurFile, line) \in Range(categories)
      /\ \A c \in Range(categories) :
           Occurrences(JobOutput(c), line[1]) =
             IF c = CategoryText(CurFile, line) THEN 1 ELSE 0
C3_Witness ==
  /\ JobCompleted
  /\ \E i, j \in 1..Len(CurFile.lines) :
       CategoryText(CurFile, CurFile.lines[i]) # CategoryText(CurFile, CurFile.lines[j])

\* C4: records with an empty category field are a bucket of their own: they
\* do not make the job fail and they are written to an output file.
C4_EmptyCategoryBucket ==
  \A i \in 1..Len(files) :
    LET f == InputFile(i) IN
    (/\ JobOk(i) \/ JobFailed(i)
     /\ f.readable /\ HasCategoryColumn(f)
     /\ ~JobFailedWith(i, "SinkIOError"))
    => \A n \in 1..Len(f.lines) :
         CategoryText(f, f.lines[n]) = "" =>
           /\ JobOk(i)
           /\ \E p \in DOMAIN outFiles :
                /\ p[2] = PathPool[files[i]][2]
                /\ \E m \in 1..Len(outFiles[p].lines) :
                     outFiles[p].lines[m][1] = f.lines[n][1]

\* a list without its k-th element
Without(seq, k) == SubSeq(seq, 1, k - 1) \o SubSeq(seq, k + 1, Len(seq))
\* position of the category column in the header of f
CategoryPos(f) == CHOOSE j \in 1..Len(f.header) : f.header[j] = category_col
\* the line of the input file f that carries this id
LineWithId(f, id) == f.lines[CHOOSE n \in 1..Len(f.lines) : f.lines[n][1] = id]

\* C5: column-drop invariant: without keep_category_col no output file has
\* the category column and the other columns keep their order; with it every
\* output record keeps the column with its original value; either way the
\* rows written for a category are the input rows of that category.
C5_ColumnDrop ==
  /\ \A p \in DOMAIN outFiles :
       LET out == outFiles[p] IN
       IF keep_category_col
       THEN \A m \in 1..Len(out.lines) :
              \E j \in 1..Len(out.header) :
                out.header[j] = category_col /\ out.lines[m][j] = p[1]
       ELSE \A j \in 1..Len(out.header) : out.header[j] # category_col
  /\ JobCompleted =>
       \A c \in Range(categories) :
         LET out == JobOutput(c)
             k == CategoryPos(CurFile)
         IN /\ out.header = IF keep_category_col THEN CurFile.header
                             ELSE Without(CurFile.header, k)
            /\ {out.lines[m][1] : m \in 1..Len(out.lines)} =
                 {CurFile.lines[n][1] : n \in {x \in 1..Len(CurFile.lines) :
                                                 CurFile.lines[x][k] = c}}
            /\ \A m \in 1..Len(out.lines) :
                 LET src == LineWithId(CurFile, out.lines[m][1])
                 IN out.lines[m] = IF keep_category_col THEN src ELSE Without(src, k)
C5_Witness ==
  /\ JobCompleted
  /\ ~keep_category_col
  /\ \E c \in Range(categories) : Len(JobOutput(c).lines) >= 2

\* C6: the output path is distinct for every (input file, category) pair of
\* a Run: the path a job writes was not written before in the Run.
C6_DistinctOutputPaths ==
  [][(pc = "write" /\ pc' # "done")
       => <<categories[ci], PathPool[files[idx]][2]>> \notin DOMAIN outFiles]_vars

\* the category values of the input file f as the discovery reads them
AllCategories(f) ==
  {IF f.lines[n][CategoryPos(f)] = "" THEN Null ELSE f.lines[n][CategoryPos(f)] :
     n \in 1..Len(f.lines)}

\* C7: discovery completes before routing begins: whenever a directory or a
\* file is created the category list holds all category values of the file,
\* and the list does not change during the write phase.
C7_DiscoveryFirst ==
  [][/\ (dirs' # dirs \/ outFiles' # outFiles) =>
          /\ Range(categories) = AllCategories(CurFile)
          /\ log[Len(log)] = [ev |-> "splitting", file |-> idx,
                              n |-> Len(categories), msg |-> ""]
     /\ pc \in {"mkdir", "write"} => categories' = categories]_vars
C7_Witness ==
  /\ pc = "write"
  /\ ci = 2
  /\ <<categories[1], PathPool[files[idx]][2]>> \in DOMAIN outFiles

\* C8: a record whose category is not in the discovered set (the input
\* changed between the passes) makes the job fail: a write pass that reads
\* such a record ends the job with an error.
C8_ConsistencyViolation ==
  [][(/\ pc = "write"
      /\ disk' = disk
      /\ CurFile.readable /\ HasCategoryColumn(CurFile)
      /\ AllCategories(CurFile) \ Range(categories) # {})
     => /\ pc' = "done"
        /\ log'[Len(log')].ev = "error"]_vars

\* the job of the i-th file is over
JobEnded(i) == i < idx \/ (i = idx /\ pc = "done")
\* a readable file with the category column in its header and no data rows
HeaderOnly(f) == f.readable /\ HasCategoryColumn(f) /\ f.lines = <<>>

\* C9: a header-only input yields an empty category set, creates no
\* directory and no file, and is reported as saved with 0 categories.
C9_EmptyInputReported ==
  \A i \in 1..Len(files) :
    (JobEnded(i) /\ HeaderOnly(InputFile(i))) =>
      /\ ~JobFailed(i)
      /\ \E k \in 1..Len(log) :
           log[k] = [ev |-> "saved", file |-> i, n |-> 0, msg |-> ""]
C9_EmptyInputCreatesNothing ==
  (idx > 0 /\ pc \in {"discover", "mkdir", "write", "saved"} /\ HeaderOnly(CurFile))
    => /\ dirs' = dirs
       /\ outFiles' = outFiles
       /\ pc = "discover" => categories' = <<>>
C9_EmptyInput == [][C9_EmptyInputCreatesNothing]_vars /\ []C9_EmptyInputReported
C9_Witness ==
  \E i \in 1..Len(files) : JobOk(i) /\ HeaderOnly(InputFile(i)) /\ i > 1 /\ JobOk(1)

\* C10: a file whose header lacks the category column fails with
\* ColumnNotFound before anything is created for it, and the failure is
\* fatal to that job only: the later files of the Run are still processed.
C10_ColumnNotFound ==
  pc = "done" =>
    \A i \in 1..idx :
      (InputFile(i).readable /\ ~HasCategoryColumn(InputFile(i))) =>
        /\ JobFailedWith(i, "ColumnNotFound")
        /\ \A p \in DOMAIN outFiles :
             p[2] = PathPool[files[i]][2] => \E j \in 1..(i - 1) : JobOk(j)
        /\ \A j \in (i + 1)..Len(files) : JobOk(j) \/ JobFailed(j)

\* the Run has a failed job
SomeJobFailed == \E i \in 1..Len(files) : JobFailed(i)

\* C11: the Run ends as "all jobs ok", "partial failure" or "total failure"
\* (no input matched), and whenever a job failed the completion indicator
\* handed to the caller is non-zero.
C11_RunStatus ==
  (pc = "done" /\ SomeJobFailed) => ExitCode # 0

\* the output files of the current job that belong to its categories
JobFiles ==
  {p \in DOMAIN outFiles : p[2] = PathPool[files[idx]][2] /\ p[1] \in Range(categories)}

\* C14: every discovered category gets one sink, written once; the job is
\* reported as saved only after the files of all its categories were
\* written, and the number it reports is the number of files written.
C14_OneSinkStep ==
  /\ (pc = "saved" /\ log' # log) =>
        /\ log'[Len(log')] = [ev |-> "saved", file |-> idx,
                              n |-> Cardinality(JobFiles), msg |-> ""]
        /\ \A j \in 1..Len(categories) :
             <<categories[j], PathPool[files[idx]][2]>> \in JobFiles
  /\ outFiles' # outFiles =>
        /\ pc = "write"
        /\ \A p \in DOMAIN outFiles' :
             p # <<categories[ci], PathPool[files[idx]][2]>> =>
               p \in DOMAIN outFiles /\ outFiles'[p] = outFiles[p]
        /\ \A j \in 1..(ci - 1) : categories[j] # categories[ci]
  /\ (pc = "write" /\ pc' \in {"mkdir", "saved"}) =>
        /\ <<categories[ci], PathPool[files[idx]][2]>> \in DOMAIN outFiles'
        /\ pc' = "saved" <=> ci = Len(categories)
        /\ pc' = "mkdir" => ci' = ci + 1
C14_OneSinkPerCategory == [][C14_OneSinkStep]_vars
C14_Witness ==
  /\ JobOk(idx)
  /\ pc = "done"
  /\ Len(categories) >= 2
  /\ Cardinality(JobFiles) = Len(categories)

\* C15: when a job fails while it writes the file of a category, the files
\* already written for earlier categories and by earlier jobs stay as they
\* are, and the job is reported as failed.
C15_FailedWriteStep ==
  (pc = "write" /\ pc' = "done") =>
    /\ log' = Append(log, [ev |-> "error", file |-> idx, n |-> 0,
                           msg |-> "SinkIOError"])
    /\ \A p \in DOMAIN outFiles :
         (\/ \E j \in 1..(ci - 1) : p = <<categories[j], PathPool[files[idx]][2]>>
          \/ \E i \in 1..(idx - 1) : JobOk(i) /\ p[2] = PathPool[files[i]][2])
         => p \in DOMAIN outFiles' /\ outFiles'[p] = outFiles[p]
C15_NoRollback == [][C15_FailedWriteStep]_vars

\* a line of the input file f whose field count differs from the header's
Malformed(f, n) == Len(f.lines[n]) # Len(f.header)
\* the id of a line stands in an output file written for this stem
Written(stem, id) ==
  \E p \in DOMAIN outFiles :
    p[2] = stem /\ \E m \in 1..Len(outFiles[p].lines) : outFiles[p].lines[m][1] = id

\* C12: a malformed line is left out of every output file, a warning is
\* logged for it, and the well-formed rows of the file are still written.
C12_SkipMalformed ==
  pc = "done" =>
    \A i \in 1..Len(files) :
      LET f == InputFile(i) IN
      (\E n \in 1..Len(f.lines) : Malformed(f, n)) =>
        /\ \E k \in 1..Len(log) : log[k].ev = "warning" /\ log[k].file = i
        /\ \A n \in 1..Len(f.lines) :
             Written(PathPool[files[i]][2], f.lines[n][1]) <=> ~Malformed(f, n)

(* ====================== properties of extract_files ==================== *)
\* C16: a corrupt archive does not stop the run: when extract_files has
\* returned, every good zip was extracted into the unpack directory next to
\* it (and is deleted exactly when remove_unpacked_dir is set), every bad zip
\* was moved exactly once, into bad_zip_<stem> next to where it lay, and the
\* traversal came to its end.
C16_BadZipMovedOnce ==
  zpc = "done" =>
    /\ zlog[Len(zlog)].ev = "complete"
    /\ \A f \in tree0 :
         IF f.good
         THEN /\ Append(f.dir, <<"unpack", f.stem>>) \in unpacked
              /\ f \in zips <=> ~remove_unpacked_dir
         ELSE /\ [f EXCEPT !.dir = Append(f.dir, <<"bad_zip", f.stem>>)] \in zips
              /\ Cardinality({k \in 1..Len(zlog) :
                     zlog[k].ev = "moved" /\ zlog[k].stem = f.stem
                     /\ Len(zlog[k].dir) >= Len(f.dir)
                     /\ SubSeq(zlog[k].dir, 1, Len(f.dir)) = f.dir
                     /\ \A j \in (Len(f.dir) + 1)..Len(zlog[k].dir) :
                          zlog[k].dir[j] = <<"bad_zip", f.stem>>}) = 1

(* =================== properties of calculate_file_len ================== *)
\* the text consists of newline-terminated lines only
NewlineTerminated(text) == text = <<>> \/ text[Len(text)] = "nl"
\* the number of lines of such a text
LineCount(text) == Cardinality({i \in 1..Len(text) : text[i] = "nl"})

\* C13: calculate_file_len called with its default arguments returns the
\* number of lines: n for a file of n newline-terminated lines.
C13_DefaultCallCountsLines ==
  (/\ lpc = "loop"
   /\ has_header = DefaultHasHeader
   /\ last_text # <<>>
   /\ NewlineTerminated(last_text))
  => file_len = LineCount(last_text)

\* the sum of a column over the reported rows
RECURSIVE Total(_, _)
Total(rows, column) ==
  IF rows = {} THEN 0
  ELSE LET r == CHOOSE x \in rows : TRUE
       IN r[column] + Total(rows \ {r}, column)
\* the numbers of the matched files over all keys
RECURSIVE TotalMatched(_, _)
TotalMatched(keys, column) ==
  IF keys = {} THEN 0
  ELSE LET k == CHOOSE x \in keys : TRUE
       IN matched[k][column] + TotalMatched(keys \ {k}, column)

\* C18: when main has ended without a failing file, the frame holds for
\* every key the number of matched files of the key and the sum of their
\* line counts, and its totals are the number of all matched files and the
\* sum of all their line counts, with and without regrouping.
C18_ReportedCounts ==
  (lpc = "done" /\ \A k \in 1..Len(llog) : llog[k].msg \notin {"StopIteration", "ValueError"})
  => /\ report.made
     /\ include_main_dir =>
          report.rows = {[file |-> k.file, dir |-> k.dir, parent |-> k.parent,
                          file_count |-> matched[k].file_count,
                          file_len |-> matched[k].file_len] : k \in DOMAIN matched}
     /\ Total(report.rows, "file_count") = TotalMatched(DOMAIN matched, "file_count")
     /\ Total(report.rows, "file_len") = TotalMatched(DOMAIN matched, "file_len")

(* ======================== properties of hash_files ===================== *)
\* the lines of the hash file of a directory
HashFileLines(dir) == hdisk[<<dir, HashFileName(dir)>>].content
\* the files of a directory that match the pattern, the hash file aside
MatchingFiles(dir) ==
  {n \in Entries(hdisk, dir) : /\ hdisk[<<dir, n>>].kind = "file"
                               /\ Matches(n, file_pattern)
                               /\ n # HashFileName(dir)}
\* the positions of the lines for a name
LinesFor(dir, name) ==
  {i \in 1..Len(HashFileLines(dir)) : HashFileLines(dir)[i].name = name}
\* the hash file of the directory lists the matching files, once each, with
\* their hashes, and nothing else
ListsMatchingFiles(dir) ==
  /\ \A n \in MatchingFiles(dir) :
       /\ Cardinality(LinesFor(dir, n)) = 1
       /\ \A i \in LinesFor(dir, n) :
            HashFileLines(dir)[i].hash = ComputeHash(ReadFileChunks(hdisk[<<dir, n>>]))
  /\ \A i \in 1..Len(HashFileLines(dir)) :
       HashFileLines(dir)[i].name \in MatchingFiles(dir)

\* C17: when main has ended, the hash file of every directory that
\* create_hash_file was called on holds exactly one line, file name and
\* hash, for each file of the directory that matches the pattern, and no
\* line for the hash file itself, also when the hash file matches the
\* pattern and was there before the call.
C17_HashFileLines ==
  hpc = "done" => \A dir \in hcalled : ListsMatchingFiles(dir)

====
